---- MODULE Spec2Model ----
(***************************************************************************)
(* Model of the project modal controller mixin                             *)
(* (src/mixins/projectModalController.ts) and of the scroll-triggered      *)
(* reveal of the About section (src/sections/About.vue).                   *)
(*                                                                         *)
(* Strings are sequences of characters, so that String.toLowerCase is a    *)
(* real conversion.  An optional value (T | null | undefined) is a         *)
(* sequence of length 0 (absent) or 1 (present).                           *)
(***************************************************************************)
EXTENDS Integers, Sequences, FiniteSets, TLC

\* Longest project name / query value explored.
MaxLen == 1
\* Largest projects collection explored.
MaxProjects == 2

\* The letters names are built from: one letter in both cases.
Chars == {"a", "A"}

\* The strings of at most n characters.
StrUpTo(n) == UNION {[1..k -> Chars] : k \in 0..n}

Str == StrUpTo(MaxLen)

None == <<>>
Some(x) == <<x>>
Opt(S) == {None} \cup {Some(x) : x \in S}

\* String.prototype.toLowerCase, one character.
LowerChar(c) == IF c = "A" THEN "a" ELSE c

\* String.prototype.toLowerCase.
toLowerCase(s) == [i \in 1..Len(s) |-> LowerChar(s[i])]

\* A Project record: only its name is read by the controller.
Project == [name : Str]

\* The projects prop: an ordered collection of at most n projects.
ProjectsUpTo(n) == UNION {[1..k -> Project] : k \in 0..n}

\* data(): activeProjectName starts as the string '0'.
Sentinel == <<"0">>

\* JavaScript truthiness of a string | null: null and '' are falsy.
Truthy(m) == m # None /\ m[1] # <<>>

VARIABLES
  \* ---- project modal controller (one component instance) ----
  projects,           \* props.projects
  urlParam,           \* getURLParams(window.location).get('project'): string | null
  mstage,             \* "new" before the created hook ran, "ready" after
  isActive,           \* data.isActive
  activeProjectName,  \* data.activeProjectName
  raised,             \* an exception escaped the last operation
  lastOp,             \* the last operation called on the controller
  lastArg,            \* the ProjectModalState passed to the last setModalState
  \* ---- About section (one component instance and the window) ----
  aphase,             \* lifecycle: "new", "created", "mounted", "destroyed"
  scrollListeners,    \* the 'scroll' listeners registered on window
  refs,               \* the names present in this.$refs
  elements,           \* the two column elements: class list and bounding rectangle
  innerHeight,        \* window.innerHeight
  seen,               \* columns that handleScroll has found in view
  lastEvent,          \* the last event delivered to the component or the window
  handlerRan,         \* the last scroll event invoked handleScroll
  \* ---- direct calls of updateClassesIfInView and handleScroll ----
  uRefs,              \* argument: the two element references, each possibly absent
  uOpts,              \* argument: {addClasses, removeClasses}
  uHeight,            \* argument: window.innerHeight
  uCall,              \* "none", "update" or "handleScroll"
  uOut                \* the call's outcome

mvars == <<projects, urlParam, mstage, isActive, activeProjectName, raised, lastOp, lastArg>>
avars == <<aphase, scrollListeners, refs, elements, innerHeight, seen, lastEvent, handlerRan>>
uvars == <<uRefs, uOpts, uHeight, uCall, uOut>>
vars == <<mvars, avars, uvars>>

\* The predicate of getProjectByName: the names are equal once lower-cased.
nameMatches(project, name) == toLowerCase(project.name) = toLowerCase(name)

\* Array.prototype.find with that predicate, scanning from index i.
RECURSIVE FindFrom(_, _, _)
FindFrom(ps, name, i) ==
  IF i > Len(ps) THEN None
  ELSE IF nameMatches(ps[i], name) THEN Some(ps[i])
  ELSE FindFrom(ps, name, i + 1)

\* Variant of getProjectByName: the last match in collection order.
getProjectByName_lastMatch(ps, name) ==
  LET M == {i \in 1..Len(ps) : nameMatches(ps[i], name)}
  IN  IF M = {} THEN None ELSE Some(ps[CHOOSE i \in M : \A j \in M : j <= i])

\* methods.getProjectByName
getProjectByName(ps, name) == FindFrom(ps, name, 1)

\* computed.activeProject
activeProject == getProjectByName(projects, activeProjectName)

\* data(), with the props and the page URL the instance is created under
InitModal ==
  /\ projects \in ProjectsUpTo(MaxProjects)
  /\ urlParam \in Opt(Str)
  /\ mstage = "new"
  /\ isActive = FALSE
  /\ activeProjectName = Sentinel
  /\ raised = FALSE
  /\ lastOp = "data"
  /\ lastArg = None

\* The assignments of methods.setModalState
SetState(state) ==
  /\ isActive' = state.isActive
  /\ activeProjectName' = state.activeProjectName
  /\ lastArg' = Some(state)

\* Variant of created: the truthiness test of linkedProject is missing, so the
\* lookup runs on null too.
created_noTruthinessGuard ==
  /\ mstage = "new"
  /\ mstage' = "ready"
  /\ lastOp' = "created"
  /\ LET linkedProject == urlParam
         throws == linkedProject = None
     IN  /\ raised' = throws
         /\ IF ~throws /\ getProjectByName(projects, linkedProject[1]) # None
            THEN SetState([isActive |-> TRUE, activeProjectName |-> linkedProject[1]])
            ELSE UNCHANGED <<isActive, activeProjectName, lastArg>>
  /\ UNCHANGED <<projects, urlParam>>

\* Variant of created: the name stored is the matched project's own name.
created_storesProjectName ==
  /\ mstage = "new"
  /\ mstage' = "ready"
  /\ lastOp' = "created"
  /\ LET linkedProject == urlParam
         looksUp == Truthy(linkedProject)
     IN  /\ raised' = FALSE
         /\ IF looksUp /\ getProjectByName(projects, linkedProject[1]) # None
            THEN SetState([isActive |-> TRUE,
                           activeProjectName |->
                             getProjectByName(projects, linkedProject[1])[1].name])
            ELSE UNCHANGED <<isActive, activeProjectName, lastArg>>
  /\ UNCHANGED <<projects, urlParam>>

\* created(): the share-link jump.  `a && b` evaluates b only when a is truthy;
\* getProjectByName(null) would throw on null.toLowerCase().
created ==
  /\ mstage = "new"
  /\ mstage' = "ready"
  /\ lastOp' = "created"
  /\ LET linkedProject == urlParam
         looksUp == Truthy(linkedProject)
         throws == looksUp /\ linkedProject = None
     IN  /\ raised' = throws
         /\ IF ~throws /\ looksUp /\ getProjectByName(projects, linkedProject[1]) # None
            THEN SetState([isActive |-> TRUE, activeProjectName |-> linkedProject[1]])
            ELSE UNCHANGED <<isActive, activeProjectName, lastArg>>
  /\ UNCHANGED <<projects, urlParam>>

\* Variant of setModalState: a state naming no project is ignored.
setModalState_validates ==
  /\ mstage = "ready"
  /\ \E state \in [isActive : BOOLEAN, activeProjectName : Str] :
       /\ lastArg' = Some(state)
       /\ IF getProjectByName(projects, state.activeProjectName) # None
          THEN /\ isActive' = state.isActive
               /\ activeProjectName' = state.activeProjectName
          ELSE UNCHANGED <<isActive, activeProjectName>>
  /\ lastOp' = "setModalState"
  /\ raised' = FALSE
  /\ UNCHANGED <<projects, urlParam, mstage>>

\* methods.setModalState called by the embedding component; open(name) is the
\* call with isActive = TRUE.
setModalState ==
  /\ mstage = "ready"
  /\ \E state \in [isActive : BOOLEAN, activeProjectName : Str] : SetState(state)
  /\ lastOp' = "setModalState"
  /\ raised' = FALSE
  /\ UNCHANGED <<projects, urlParam, mstage>>

\* Variant of closeModal: the name is reset to the initial '0' as well.
closeModal_resetsName ==
  /\ mstage = "ready"
  /\ isActive' = FALSE
  /\ activeProjectName' = Sentinel
  /\ lastOp' = "closeModal"
  /\ raised' = FALSE
  /\ UNCHANGED <<projects, urlParam, mstage, lastArg>>

\* methods.closeModal
closeModal ==
  /\ mstage = "ready"
  /\ isActive' = FALSE
  /\ lastOp' = "closeModal"
  /\ raised' = FALSE
  /\ UNCHANGED <<projects, urlParam, mstage, activeProjectName, lastArg>>

(***************************************************************************)
(* The About section                                                       *)
(***************************************************************************)

\* The template refs of the two columns.
Left == "about-col-left"
Right == "about-col-right"
Cols == {Left, Right}

\* The class attributes of the two columns in the template.
TemplateClasses ==
  [c \in Cols |-> IF c = Left THEN {"hidden", "column"}
                  ELSE {"hidden", "column", "is-three-fifths", "pad-32"}]

\* The options handleScroll passes: 'animated fadeInLeft' and 'hidden' as class sets.
AboutOpts == [addClasses |-> {"animated", "fadeInLeft"}, removeClasses |-> {"hidden"}]

\* Bounding rectangles explored (top and bottom edge, relative to the viewport).
Rects ==
  { [top |-> 700, bottom |-> 900], [top |-> 900, bottom |-> 1000],
    [top |-> -100, bottom |-> -10], [top |-> 800, bottom |-> 900],
    [top |-> -100, bottom |-> 0] }

\* Viewport heights explored.
Heights == {600, 800}

\* Variant of inView: the element has to be wholly inside the viewport.
inView_fullyVisible(win, rect) == rect.top >= 0 /\ rect.bottom <= win.innerHeight

\* The visibility test of updateClassesIfInView.
inView(win, rect) == rect.top < win.innerHeight /\ rect.bottom > 0

\* lib/util updateClassesIfInView(window, el, {addClasses, removeClasses}): the
\* element after the call, and whether the call threw.
updateClassesIfInView(win, el, opts) ==
  IF el = None THEN [el |-> None, threw |-> FALSE]
  ELSE IF inView(win, el[1].rect)
  THEN [el |-> Some([el[1] EXCEPT
                       !.classList = (@ \cup opts.addClasses) \ opts.removeClasses]),
        threw |-> FALSE]
  ELSE [el |-> el, threw |-> FALSE]

\* Variant of handleScroll: returns when the left column's ref is missing.
handleScroll_stopsAtMissingRef(win, r) ==
  IF r[Left] = None THEN [refs |-> r, threw |-> FALSE]
  ELSE LET left == updateClassesIfInView(win, r[Left], AboutOpts)
           right == updateClassesIfInView(win, r[Right], AboutOpts)
       IN  [refs |-> [r EXCEPT ![Left] = left.el, ![Right] = right.el],
            threw |-> left.threw \/ right.threw]

\* Variant of handleScroll: addClasses and removeClasses are exchanged.
handleScroll_swapsClasses(win, r) ==
  LET opts == [addClasses |-> AboutOpts.removeClasses,
               removeClasses |-> AboutOpts.addClasses]
      left == updateClassesIfInView(win, r[Left], opts)
      right == updateClassesIfInView(win, r[Right], opts)
  IN  [refs |-> [r EXCEPT ![Left] = left.el, ![Right] = right.el],
       threw |-> left.threw \/ right.threw]

\* methods.handleScroll over the two refs: the refs after the call and whether
\* it threw (a throw in the first call skips the second).
handleScroll(win, r) ==
  LET left == updateClassesIfInView(win, r[Left], AboutOpts)
  IN  IF left.threw THEN [refs |-> [r EXCEPT ![Left] = left.el], threw |-> TRUE]
      ELSE LET right == updateClassesIfInView(win, r[Right], AboutOpts)
           IN  [refs |-> [r EXCEPT ![Left] = left.el, ![Right] = right.el],
                threw |-> right.threw]

\* this.$refs as handleScroll reads it: a column's element, or undefined.
RefsOf(present, els) == [c \in Cols |-> IF c \in present THEN Some(els[c]) ELSE None]

InitAbout ==
  /\ aphase = "new"
  /\ scrollListeners = {}
  /\ refs = {}
  /\ \E rs \in [Cols -> Rects] :
       elements = [c \in Cols |-> [classList |-> TemplateClasses[c], rect |-> rs[c]]]
  /\ innerHeight \in Heights
  /\ seen = {}
  /\ lastEvent = "none"
  /\ handlerRan = FALSE

\* created(): the listener is registered on window
aboutCreated ==
  /\ aphase = "new"
  /\ aphase' = "created"
  /\ scrollListeners' = scrollListeners \cup {"handleScroll"}
  /\ lastEvent' = "created"
  /\ UNCHANGED <<refs, elements, innerHeight, seen, handlerRan>>

\* The template is rendered: both refs are filled.
aboutMounted ==
  /\ aphase = "created"
  /\ aphase' = "mounted"
  /\ refs' = Cols
  /\ lastEvent' = "mounted"
  /\ UNCHANGED <<scrollListeners, elements, innerHeight, seen, handlerRan>>

\* The component is torn down: the refs are cleared; the component has no
\* beforeDestroy/destroyed hook, so nothing touches the window's listeners.
aboutDestroyed ==
  /\ aphase \in {"created", "mounted"}
  /\ aphase' = "destroyed"
  /\ refs' = {}
  /\ lastEvent' = "destroyed"
  /\ UNCHANGED <<scrollListeners, elements, innerHeight, seen, handlerRan>>

\* The window scrolls or is resized (the layout changes) and dispatches 'scroll'
\* to its listeners.
windowScroll ==
  \E rs \in [Cols -> Rects], h \in Heights :
    LET moved == [c \in Cols |-> [elements[c] EXCEPT !.rect = rs[c]]]
        win == [innerHeight |-> h]
        runs == "handleScroll" \in scrollListeners
        out == handleScroll(win, RefsOf(refs, moved))
    IN  /\ innerHeight' = h
        /\ handlerRan' = runs
        /\ lastEvent' = "scroll"
        /\ elements' = IF runs
                       THEN [c \in Cols |-> IF out.refs[c] # None THEN out.refs[c][1]
                                            ELSE moved[c]]
                       ELSE moved
        /\ seen' = IF runs THEN seen \cup {c \in refs : inView(win, rs[c])} ELSE seen
        /\ UNCHANGED <<aphase, scrollListeners, refs>>

(***************************************************************************)
(* Direct calls of updateClassesIfInView and handleScroll on arbitrary     *)
(* arguments                                                               *)
(***************************************************************************)

\* Class names the arguments are drawn from.
ArgClasses == {"hidden", "animated"}

ArgElement == [classList : SUBSET ArgClasses, rect : Rects]

InitUtil ==
  /\ uRefs \in [Cols -> Opt(ArgElement)]
  /\ uOpts \in [addClasses : SUBSET ArgClasses, removeClasses : SUBSET ArgClasses]
  /\ uHeight \in Heights
  /\ uCall = "none"
  /\ uOut = [threw |-> FALSE]

\* updateClassesIfInView(window, el, opts) on the first reference
callUpdate ==
  /\ uCall = "none"
  /\ uCall' = "update"
  /\ uOut' = updateClassesIfInView([innerHeight |-> uHeight], uRefs[Left], uOpts)
  /\ UNCHANGED <<uRefs, uOpts, uHeight>>

\* handleScroll() with this.$refs = uRefs
callHandleScroll ==
  /\ uCall = "none"
  /\ uCall' = "handleScroll"
  /\ uOut' = handleScroll([innerHeight |-> uHeight], uRefs)
  /\ UNCHANGED <<uRefs, uOpts, uHeight>>

(***************************************************************************)
(* Specifications                                                          *)
(***************************************************************************)

\* The parts a specification leaves alone are parked in one fixed state.
ParkedModal ==
  /\ projects = <<>>
  /\ urlParam = None
  /\ mstage = "new"
  /\ isActive = FALSE
  /\ activeProjectName = Sentinel
  /\ raised = FALSE
  /\ lastOp = "data"
  /\ lastArg = None

ParkedAbout ==
  /\ aphase = "new"
  /\ scrollListeners = {}
  /\ refs = {}
  /\ elements = [c \in Cols |-> [classList |-> TemplateClasses[c],
                                 rect |-> [top |-> 900, bottom |-> 1000]]]
  /\ innerHeight = 800
  /\ seen = {}
  /\ lastEvent = "none"
  /\ handlerRan = FALSE

ParkedUtil ==
  /\ uRefs = [c \in Cols |-> None]
  /\ uOpts = AboutOpts
  /\ uHeight = 800
  /\ uCall = "none"
  /\ uOut = [threw |-> FALSE]

\* The modal controller.
Init == InitModal /\ ParkedAbout /\ ParkedUtil

Next ==
  \/ created /\ UNCHANGED <<avars, uvars>>
  \/ setModalState /\ UNCHANGED <<avars, uvars>>
  \/ closeModal /\ UNCHANGED <<avars, uvars>>

Spec == Init /\ [][Next]_vars

\* The About section and the window.
InitA == ParkedModal /\ InitAbout /\ ParkedUtil

NextA ==
  \/ aboutCreated /\ UNCHANGED <<mvars, uvars>>
  \/ aboutMounted /\ UNCHANGED <<mvars, uvars>>
  \/ aboutDestroyed /\ UNCHANGED <<mvars, uvars>>
  \/ windowScroll /\ UNCHANGED <<mvars, uvars>>

SpecAbout == InitA /\ [][NextA]_vars

\* Direct calls.
InitU == ParkedModal /\ ParkedAbout /\ InitUtil

NextU ==
  \/ callUpdate /\ UNCHANGED <<mvars, avars>>
  \/ callHandleScroll /\ UNCHANGED <<mvars, avars>>

SpecUtil == InitU /\ [][NextU]_vars

(***************************************************************************)
(* Properties                                                              *)
(***************************************************************************)

\* Two strings differ at most in letter case.
SameIgnoringCase(s, t) ==
  /\ Len(s) = Len(t)
  /\ \A i \in 1..Len(s) : s[i] = t[i] \/ {s[i], t[i]} = {"a", "A"}

\* The positions of the projects whose name is n up to letter case.
Matches(n) == {i \in 1..Len(projects) : SameIgnoringCase(projects[i].name, n)}

\* No two projects have the same name.
UniqueNames == \A i, j \in 1..Len(projects) : i # j => projects[i].name # projects[j].name

\* No two projects have names that differ at most in letter case.
UniqueNamesIgnoringCase ==
  \A i, j \in 1..Len(projects) :
    i # j => ~SameIgnoringCase(projects[i].name, projects[j].name)

\* C1: whenever isActive is true, activeProjectName resolves to a project of the
\* collection (activeProject is not undefined).
C1_ActiveResolves == isActive => activeProject # None

\* C2, as stated: right after created, for a collection with unique names and a
\* query value v that equals some project e's name up to letter case, isActive is
\* true, activeProjectName is v as given, and activeProject is e.
C2_LinkOpens ==
  (lastOp = "created" /\ urlParam # None /\ UniqueNames) =>
    \A i \in Matches(urlParam[1]) :
      /\ isActive
      /\ activeProjectName = urlParam[1]
      /\ activeProject = Some(projects[i])

\* C2, amended: the same for a non-empty query value and a collection whose
\* names are unique up to letter case.
C2_NonEmptyLinkOpens ==
  (lastOp = "created" /\ urlParam # None /\ urlParam[1] # <<>>
     /\ UniqueNamesIgnoringCase) =>
    \A i \in Matches(urlParam[1]) :
      /\ isActive
      /\ activeProjectName = urlParam[1]
      /\ activeProject = Some(projects[i])

\* C2 witness: created has opened the modal from a query value whose casing
\* differs from the matched project's name, in a collection of two projects.
C2_Witness ==
  /\ lastOp = "created" /\ urlParam # None /\ urlParam[1] # <<>>
  /\ UniqueNamesIgnoringCase /\ Len(projects) = 2
  /\ \E i \in Matches(urlParam[1]) : projects[i].name # urlParam[1]
  /\ isActive

\* C3: right after created, when the query has no 'project' parameter or its
\* value matches no project name up to letter case, the state is the initial
\* one (closed, name '0') and nothing was raised.
C3_NoLinkStaysClosed ==
  (lastOp = "created" /\ (urlParam = None \/ Matches(urlParam[1]) = {})) =>
    /\ ~isActive
    /\ activeProjectName = Sentinel
    /\ ~raised

\* C3 witness: created ran with a non-empty query value that matches none of
\* the projects of a non-empty collection.
C3_Witness ==
  /\ lastOp = "created" /\ urlParam # None /\ urlParam[1] # <<>>
  /\ projects # <<>> /\ Matches(urlParam[1]) = {}
  /\ ~isActive

\* C4: every closeModal step sets isActive to false and keeps activeProjectName;
\* and after open(n), with n naming a project, followed by closeModal, the modal
\* is closed and activeProject is still that project.
C4_CloseKeepsName ==
  /\ [][lastOp' = "closeModal" =>
          (~isActive' /\ activeProjectName' = activeProjectName)]_vars
  /\ []((lastOp = "closeModal" /\ lastArg # None /\ lastArg[1].isActive
          /\ Matches(lastArg[1].activeProjectName) # {}) =>
         (/\ ~isActive
          /\ activeProject = getProjectByName(projects, lastArg[1].activeProjectName)
          /\ activeProject # None))

\* C4 witness: closeModal after open(n) with n naming a project.
C4_Witness ==
  /\ lastOp = "closeModal" /\ lastArg # None /\ lastArg[1].isActive
  /\ Matches(lastArg[1].activeProjectName) # {}
  /\ ~isActive /\ activeProject # None

\* C5: getProjectByName returns the first project, in collection order, whose
\* name equals the argument up to letter case, and undefined when there is
\* none; arguments that differ only in letter case give the same result.
C5_FirstMatchIgnoringCase ==
  /\ \A n \in Str :
       LET M == Matches(n)
       IN  getProjectByName(projects, n) =
             IF M = {} THEN None
             ELSE Some(projects[CHOOSE i \in M : \A j \in M : i <= j])
  /\ \A n, m \in Str :
       SameIgnoringCase(n, m) =>
         getProjectByName(projects, n) = getProjectByName(projects, m)

\* C5 witness: two projects whose names differ only in letter case; created
\* looked up the second one's name and activated the first.
C5_Witness ==
  /\ Len(projects) = 2 /\ projects[1].name # projects[2].name
  /\ SameIgnoringCase(projects[1].name, projects[2].name)
  /\ lastOp = "created" /\ urlParam = Some(projects[2].name)
  /\ isActive /\ activeProject = Some(projects[1])

\* C6: after open(name), for any name, isActive is true, activeProjectName is
\* name, nothing was raised, and activeProject is getProjectByName(name), found
\* or not.
C6_OpenIsUnconditional ==
  (lastOp = "setModalState" /\ lastArg[1].isActive) =>
    /\ isActive
    /\ activeProjectName = lastArg[1].activeProjectName
    /\ ~raised
    /\ activeProject = getProjectByName(projects, lastArg[1].activeProjectName)

\* C6 witness: open(name) with a name that resolves to no project.
C6_Witness ==
  /\ lastOp = "setModalState" /\ lastArg[1].isActive
  /\ Matches(lastArg[1].activeProjectName) = {}
  /\ isActive /\ activeProject = None

\* C7: for a non-null element, updateClassesIfInView yields (old classes plus
\* addClasses) minus removeClasses when top < viewport height and bottom > 0,
\* and the old classes otherwise; with height 800, (700, 900) is in view and
\* (900, 1000) and (-100, -10) are not.
C7_UpdateIffInView ==
  /\ (uCall = "update" /\ uRefs[Left] # None) =>
       LET el == uRefs[Left][1]
           visible == el.rect.top < uHeight /\ el.rect.bottom > 0
       IN  /\ ~uOut.threw
           /\ uOut.el # None
           /\ uOut.el[1].rect = el.rect
           /\ uOut.el[1].classList =
                IF visible THEN (el.classList \cup uOpts.addClasses) \ uOpts.removeClasses
                ELSE el.classList
  /\ inView([innerHeight |-> 800], [top |-> 700, bottom |-> 900])
  /\ ~inView([innerHeight |-> 800], [top |-> 900, bottom |-> 1000])
  /\ ~inView([innerHeight |-> 800], [top |-> -100, bottom |-> -10])

\* C7 witness: a call on an element that overlaps the viewport only in part
\* changed its classes.
C7_Witness ==
  /\ uCall = "update" /\ uRefs[Left] # None
  /\ uHeight = 800 /\ uRefs[Left][1].rect = [top |-> 700, bottom |-> 900]
  /\ uOut.el[1].classList # uRefs[Left][1].classList

\* C8: updateClassesIfInView on an absent element throws nothing and changes
\* nothing; handleScroll with the left ref absent still updates the right column.
C8_AbsentRefTolerated ==
  /\ (uCall = "update" /\ uRefs[Left] = None) => (~uOut.threw /\ uOut.el = None)
  /\ (uCall = "handleScroll" /\ uRefs[Left] = None) =>
       /\ ~uOut.threw
       /\ uOut.refs[Left] = None
       /\ uRefs[Right] = None => uOut.refs[Right] = None
       /\ uRefs[Right] # None =>
            LET el == uRefs[Right][1]
                visible == el.rect.top < uHeight /\ el.rect.bottom > 0
            IN  uOut.refs[Right] =
                  Some([el EXCEPT !.classList =
                          IF visible THEN (@ \cup {"animated", "fadeInLeft"}) \ {"hidden"}
                          ELSE @])

\* C8 witness: handleScroll ran with the left ref absent and revealed the right
\* column.
C8_Witness ==
  /\ uCall = "handleScroll" /\ uRefs[Left] = None /\ uRefs[Right] # None
  /\ "hidden" \in uRefs[Right][1].classList
  /\ "hidden" \notin uOut.refs[Right][1].classList

\* A column element shows the reveal classes.
Revealed(el) == {"animated", "fadeInLeft"} \subseteq el.classList /\ "hidden" \notin el.classList

\* C9: a column that some handleScroll invocation found in view is revealed in
\* every later state, whatever later scroll events find; and handleScroll
\* applied again in the same layout changes nothing.
C9_RevealIsOneWay ==
  /\ \A c \in seen : Revealed(elements[c])
  /\ LET win == [innerHeight |-> innerHeight]
         once == handleScroll(win, RefsOf(refs, elements))
         twice == handleScroll(win, once.refs)
     IN  /\ twice.threw = once.threw
         /\ \A c \in Cols : twice.refs[c] = once.refs[c]

\* C9 witness: a column revealed earlier is out of view at the latest handled
\* scroll event.
C9_Witness ==
  /\ lastEvent = "scroll" /\ handlerRan
  /\ \E c \in seen :
       /\ c \in refs
       /\ ~(elements[c].rect.top < innerHeight /\ elements[c].rect.bottom > 0)
       /\ Revealed(elements[c])

\* C10: once the About component is torn down its scroll listener is no longer
\* registered, and no scroll event invokes its handleScroll.
C10_ListenerReleased ==
  aphase = "destroyed" =>
    /\ "handleScroll" \notin scrollListeners
    /\ lastEvent = "scroll" => ~handlerRan
====
